---------------------------- MODULE Spec2Model ----------------------------
(***************************************************************************)
(* Model of src/main.py: the PyQt window ProcessGuiApp, its worker thread  *)
(* LocalLLMWorker and the signals queued from the worker to the UI thread. *)
(*                                                                         *)
(* Texts handled character by character (the model response, the cleaned   *)
(* Mermaid code, the JavaScript command) are sequences of characters.      *)
(* Log lines are strings; the Chinese literals of the source are written   *)
(* in ASCII here, with the source literal quoted in the comment beside     *)
(* each.                                                                   *)
(***************************************************************************)
EXTENDS Integers, Sequences, FiniteSets, TLC

VARIABLES
    btn_gen_flow,   \* self.btn_gen_flow.isEnabled()
    log_area,       \* self.log_area: the lines appended, oldest first
    ocr_text,       \* self.ocr_text
    view_flow,      \* self.view_flow: the scripts passed to runJavaScript, oldest first
    view_graph,     \* self.view_graph: the HTML it shows
    workers,        \* every LocalLLMWorker created, in creation order; self.worker is the last
    ui_queue,       \* signals emitted by worker threads, queued for the UI thread's event loop
    dialog_results  \* what QFileDialog.getOpenFileName returned to load_image, call by call

vars ==
    <<btn_gen_flow, log_area, ocr_text, view_flow, view_graph, workers, ui_queue,
      dialog_results>>

---------------------------------------------------------------------------
(* Bounds of the model *)

\* Accepted clicks on the generate button in one run
MaxGen == 2
\* Calls of load_image in one run
MaxLoads == 1
\* Pieces a model response is put together from
MaxPieces == 3

---------------------------------------------------------------------------
(* Literals of the source *)

\* src/main.py:46   response.status_code == 200
StatusOK == 200

\* src/main.py:80   "零件名称: 传动轴\n材料: 45钢\n热处理: 调质\n精度要求: IT7\n特征: 两个键槽，一段螺纹。"
OcrStub == "part: drive shaft / material: 45 steel / heat treatment: quench+temper / tolerance: IT7 / features: two keyways, one thread"

\* src/main.py:101  the placeholder page of the knowledge-graph tab
GraphPlaceholderHtml == "<h3>knowledge graph area</h3><p>load ECharts/PyVis HTML here</p>"

\* src/main.py:43   "正在请求本地大模型进行计算..."
MsgRequesting == "requesting the local model..."
\* src/main.py:51   "计算完成，正在渲染..."
MsgDone == "computation done, rendering..."
\* src/main.py:53   f"错误: API 返回 {response.status_code}"
MsgApiErrorPrefix == "error: API returned "
\* src/main.py:55   f"连接本地模型失败: {str(e)}"
MsgConnFailPrefix == "connecting to the local model failed: "
\* src/main.py:122  f"已加载: {fname}"
MsgLoadedPrefix == "loaded: "
\* src/main.py:155  "开始调用本地模型..."
MsgStart == "start calling the local model..."
\* src/main.py:168  "收到模型反馈，正在渲染图表..."
MsgFeedback == "model feedback received, rendering the chart..."

---------------------------------------------------------------------------
(* Python str operations, on sequences of characters *)

\* s[i:] starts with pat
StartsWithAt(s, i, pat) ==
    /\ i + Len(pat) - 1 <= Len(s)
    /\ \A k \in 1..Len(pat) : s[i + k - 1] = pat[k]

\* str.replace(old, new) for a non-empty old: the non-overlapping occurrences
\* of old, found left to right in one pass, are replaced
RECURSIVE ReplaceFrom(_, _, _, _)
ReplaceFrom(s, i, old, new) ==
    IF i > Len(s) THEN <<>>
    ELSE IF StartsWithAt(s, i, old)
         THEN new \o ReplaceFrom(s, i + Len(old), old, new)
         ELSE <<s[i]>> \o ReplaceFrom(s, i + 1, old, new)

Replace(s, old, new) == ReplaceFrom(s, 1, old, new)

\* str.isspace() of one character
IsSpace(c) == c \in {" ", "\t", "\n", "\r"}

RECURSIVE LStrip(_)
LStrip(s) == IF s # <<>> /\ IsSpace(Head(s)) THEN LStrip(Tail(s)) ELSE s

RECURSIVE RStrip(_)
RStrip(s) ==
    IF s # <<>> /\ IsSpace(s[Len(s)]) THEN RStrip(SubSeq(s, 1, Len(s) - 1)) ELSE s

\* str.strip()
Strip(s) == RStrip(LStrip(s))

\* The backquote character (a backquote cannot be written in a string here)
BQ == "BQ"

\* The code-fence marker: three backquotes
Fence == <<BQ, BQ, BQ>>
\* The opening fence of a Mermaid block: three backquotes and the word mermaid
FenceMermaid == Fence \o <<"m", "e", "r", "m", "a", "i", "d">>

\* CleanResult with the two replacements the other way round: the fences go
\* first, and the word mermaid of an opening fence stays
CleanResult_fence_first(result) ==
    Strip(Replace(Replace(result, Fence, <<>>), FenceMermaid, <<>>))

\* src/main.py:49
CleanResult(result) == Strip(Replace(Replace(result, FenceMermaid, <<>>), Fence, <<>>))

\* s contains pat
Contains(s, pat) == \E i \in 1..Len(s) : StartsWithAt(s, i, pat)

---------------------------------------------------------------------------
(* The JavaScript command of update_flow_chart, and what the page's engine *)
(* makes of it                                                             *)

\* src/main.py:172
SafeCode(mermaid_code) ==
    Replace(Replace(mermaid_code, <<"\n">>, <<"\\", "n">>), <<"\"">>, <<"\\", "\"">>)

\* The text  updateGraph(
CallPrefix == <<"u", "p", "d", "a", "t", "e", "G", "r", "a", "p", "h", "(">>

\* src/main.py:175
JsCommand(mermaid_code) ==
    CallPrefix \o <<"\"">> \o SafeCode(mermaid_code) \o <<"\"", ")", ";">>

\* The character a single-character escape \d stands for in a JavaScript
\* string literal; a character with no meaning of its own stands for itself
JsEscaped(d) ==
    CASE d = "n" -> "\n"
      [] d = "r" -> "\r"
      [] d = "t" -> "\t"
      [] d = "f" -> "\f"
      [] OTHER -> d

\* Reads a double-quoted JavaScript string literal whose opening quote is at
\* cmd[i - 1]: its value and the place after its closing quote, or a syntax
\* error (no closing quote, a raw line terminator, a malformed \x or \u)
RECURSIVE JsLiteral(_, _, _)
JsLiteral(cmd, i, acc) ==
    IF i > Len(cmd) THEN [ok |-> FALSE]
    ELSE IF cmd[i] = "\"" THEN [ok |-> TRUE, value |-> acc, next |-> i + 1]
    ELSE IF cmd[i] \in {"\n", "\r"} THEN [ok |-> FALSE]
    ELSE IF cmd[i] = "\\"
         THEN IF i + 1 > Len(cmd) THEN [ok |-> FALSE]
              ELSE IF cmd[i + 1] \in {"x", "u"} THEN [ok |-> FALSE]
              ELSE IF cmd[i + 1] \in {"\n", "\r"}
                   THEN JsLiteral(cmd, i + 2, acc)    \* a line continuation
                   ELSE JsLiteral(cmd, i + 2, Append(acc, JsEscaped(cmd[i + 1])))
         ELSE JsLiteral(cmd, i + 1, Append(acc, cmd[i]))

\* What runJavaScript(cmd) does in the page of init_mermaid_view: when cmd
\* is the one statement updateGraph("..."); the text updateGraph receives as
\* graphDef; otherwise the script is not that call (a syntax error, or more)
JsRun(cmd) ==
    IF ~StartsWithAt(cmd, 1, CallPrefix \o <<"\"">>) THEN [ok |-> FALSE]
    ELSE LET lit == JsLiteral(cmd, Len(CallPrefix) + 2, <<>>)
         IN  IF lit.ok /\ SubSeq(cmd, lit.next, Len(cmd)) = <<")", ";">>
             THEN [ok |-> TRUE, graphDef |-> lit.value]
             ELSE [ok |-> FALSE]

---------------------------------------------------------------------------
(* The HTTP exchange *)

\* str(n) of a natural number
Digit(d) ==
    CASE d = 0 -> "0" [] d = 1 -> "1" [] d = 2 -> "2" [] d = 3 -> "3" [] d = 4 -> "4"
      [] d = 5 -> "5" [] d = 6 -> "6" [] d = 7 -> "7" [] d = 8 -> "8" [] d = 9 -> "9"

RECURSIVE IntStr(_)
IntStr(n) == IF n < 10 THEN Digit(n) ELSE IntStr(n \div 10) \o Digit(n % 10)

\* JSON values a body can hold
JsonString(chars) == [type |-> "string", chars |-> chars]
JsonNumber == [type |-> "number"]
JsonNull == [type |-> "null"]

\* Bodies: one that is not JSON, a JSON array, a JSON object with its fields
NotJson == [json |-> FALSE]
JsonArray == [json |-> TRUE, type |-> "array"]
JsonObject(fields) == [json |-> TRUE, type |-> "object", fields |-> fields]
NoFields == [k \in {} |-> JsonNull]

\* What requests.post gives the worker: a response, or an exception
HttpResponse(status_code, body) ==
    [kind |-> "response", status_code |-> status_code, body |-> body]
Raised(exc) == [kind |-> "raised", exc |-> exc]
NoResponse == [kind |-> "none"]

\* Pieces of text a model response is put together from
Pieces ==
    { <<BQ>>, <<BQ, BQ>>, FenceMermaid, <<"\n">>, <<"\r">>, <<"\"">>, <<"\\">>, <<"A">> }

RECURSIVE TextsOf(_)
TextsOf(n) ==
    IF n = 0 THEN { <<>> }
    ELSE LET shorter == TextsOf(n - 1)
         IN  shorter \cup { t \o p : t \in shorter, p \in Pieces }

\* Every text of at most MaxPieces pieces
Texts == TextsOf(MaxPieces)

\* A fenced Mermaid block, as a model answers although told not to
FencedAnswer ==
    FenceMermaid \o <<"\n", "A", "\"", "A", "\"", "\n">> \o Fence \o <<"\n">>

\* Outcomes of the POST in the specification of the whole program
Responses ==
    { HttpResponse(StatusOK, JsonObject("response" :> JsonString(FencedAnswer))),
      HttpResponse(StatusOK, JsonObject(NoFields)),
      HttpResponse(StatusOK, JsonObject("response" :> JsonNumber)),
      HttpResponse(StatusOK, NotJson),
      HttpResponse(404, JsonObject("response" :> JsonString(<<"A">>))),
      Raised("ConnectionError") }

\* Outcomes of the POST in the specification of the text functions: status
\* 200 with every text as the 'response' field
TextResponses ==
    { HttpResponse(StatusOK, JsonObject("response" :> JsonString(t))) : t \in Texts }

\* RunOutcome that takes any status-200 body: what is no string counts as ""
RunOutcome_lenient(resp) ==
    IF resp.kind = "raised"
    THEN [emit |-> "log_updated", text |-> MsgConnFailPrefix \o resp.exc]
    ELSE IF resp.status_code = StatusOK
    THEN IF resp.body.json /\ resp.body.type = "object"
            /\ "response" \in DOMAIN resp.body.fields
            /\ resp.body.fields["response"].type = "string"
         THEN [emit |-> "result_ready",
               text |-> CleanResult(resp.body.fields["response"].chars)]
         ELSE [emit |-> "result_ready", text |-> <<>>]
    ELSE [emit |-> "log_updated", text |-> MsgApiErrorPrefix \o IntStr(resp.status_code)]

\* src/main.py:46-55: what run does with the outcome of the POST: the
\* argument of result_ready, or the error line of log_updated
RunOutcome(resp) ==
    IF resp.kind = "raised"
    THEN [emit |-> "log_updated", text |-> MsgConnFailPrefix \o resp.exc]
    ELSE IF resp.status_code = StatusOK
    THEN IF ~resp.body.json
         THEN [emit |-> "log_updated", text |-> MsgConnFailPrefix \o "JSONDecodeError"]
         ELSE IF resp.body.type # "object"
         THEN [emit |-> "log_updated", text |-> MsgConnFailPrefix \o "AttributeError"]
         ELSE LET result == IF "response" \in DOMAIN resp.body.fields
                            THEN resp.body.fields["response"]
                            ELSE JsonString(<<>>)
              IN  IF result.type # "string"
                  THEN [emit |-> "log_updated",
                        text |-> MsgConnFailPrefix \o "AttributeError"]
                  ELSE [emit |-> "result_ready", text |-> CleanResult(result.chars)]
    ELSE [emit |-> "log_updated", text |-> MsgApiErrorPrefix \o IntStr(resp.status_code)]

---------------------------------------------------------------------------
(* The program *)

\* File names the dialog of load_image returns; "" when it is cancelled
FileNames == {"", "shaft.png"}

\* src/main.py:17-21: a worker, before start(). pc is the place of its
\* thread in run; posts counts its calls of requests.post and emitted lists
\* the signals it has emitted, oldest first
LocalLLMWorker(context_text) ==
    [context_text |-> context_text,
     prompt_type |-> "process_flow",
     pc |-> "run",
     response |-> NoResponse,
     posts |-> 0,
     emitted |-> <<>>]

\* A signal of worker w on its way to the slot connected to it
Signal(w, name, text) == [from |-> w, signal |-> name, text |-> text]

\* Post that puts the signal before the events already waiting
Post_in_front(queue, sig) == <<sig>> \o queue

\* A signal emitted in a worker's thread for a slot of the UI thread is
\* queued: posted behind the events already waiting for the event loop
Post(queue, sig) == Append(queue, sig)

\* The worker's thread is running: started and not yet through with run
IsRunning(w) == workers[w].pc # "finished"

\* src/main.py:59-116
Init ==
    /\ btn_gen_flow = TRUE
    /\ log_area = <<>>
    /\ ocr_text = OcrStub
    /\ view_flow = <<>>
    /\ view_graph = GraphPlaceholderHtml
    /\ workers = <<>>
    /\ ui_queue = <<>>
    /\ dialog_results = <<>>

\* load_image that does what its TODO asks for: it reads the text off the file
load_image_runs_ocr(fname) ==
    /\ Len(dialog_results) < MaxLoads
    /\ dialog_results' = Append(dialog_results, fname)
    /\ log_area' = IF fname # "" THEN Append(log_area, MsgLoadedPrefix \o fname)
                   ELSE log_area
    /\ ocr_text' = IF fname # "" THEN "text of " \o fname ELSE ocr_text
    /\ UNCHANGED <<btn_gen_flow, view_flow, view_graph, workers, ui_queue>>

\* src/main.py:118-123
load_image(fname) ==
    /\ Len(dialog_results) < MaxLoads
    /\ dialog_results' = Append(dialog_results, fname)
    /\ log_area' = IF fname # "" THEN Append(log_area, MsgLoadedPrefix \o fname)
                   ELSE log_area
    /\ UNCHANGED <<btn_gen_flow, ocr_text, view_flow, view_graph, workers, ui_queue>>

\* start_generation that leaves the button enabled
start_generation_keeps_button(limit) ==
    /\ btn_gen_flow
    /\ Len(workers) < limit
    /\ log_area' = Append(log_area, MsgStart)
    /\ workers' = Append(workers, LocalLLMWorker(ocr_text))
    /\ UNCHANGED <<btn_gen_flow, ocr_text, view_flow, view_graph, ui_queue, dialog_results>>

\* src/main.py:153-162: a click on the generate button; a disabled button
\* takes no click. limit bounds the workers of one run of the model
start_generation(limit) ==
    /\ btn_gen_flow
    /\ Len(workers) < limit
    /\ btn_gen_flow' = FALSE
    /\ log_area' = Append(log_area, MsgStart)
    /\ workers' = Append(workers, LocalLLMWorker(ocr_text))
    /\ UNCHANGED <<ocr_text, view_flow, view_graph, ui_queue, dialog_results>>

\* src/main.py:43
run_emit_requesting(w) ==
    /\ workers[w].pc = "run"
    /\ ui_queue' = Post(ui_queue, Signal(w, "log_updated", MsgRequesting))
    /\ workers' = [workers EXCEPT
                     ![w].pc = "post",
                     ![w].emitted = Append(@, Signal(w, "log_updated", MsgRequesting))]
    /\ UNCHANGED <<btn_gen_flow, log_area, ocr_text, view_flow, view_graph, dialog_results>>

\* src/main.py:44: requests.post is called and blocks the worker's thread
run_post(w) ==
    /\ workers[w].pc = "post"
    /\ workers' = [workers EXCEPT ![w].pc = "blocked", ![w].posts = @ + 1]
    /\ UNCHANGED <<btn_gen_flow, log_area, ocr_text, view_flow, view_graph, ui_queue,
                   dialog_results>>

\* post_completes in a run that tries again when the POST raised
post_completes_retries(w, outcome) ==
    /\ workers[w].pc = "blocked"
    /\ workers' = [workers EXCEPT
                     ![w].pc = IF outcome.kind = "raised" THEN "post" ELSE "returned",
                     ![w].response = outcome]
    /\ UNCHANGED <<btn_gen_flow, log_area, ocr_text, view_flow, view_graph, ui_queue,
                   dialog_results>>

\* src/main.py:44: requests.post returns a response or raises
post_completes(w, outcome) ==
    /\ workers[w].pc = "blocked"
    /\ workers' = [workers EXCEPT ![w].pc = "returned", ![w].response = outcome]
    /\ UNCHANGED <<btn_gen_flow, log_area, ocr_text, view_flow, view_graph, ui_queue,
                   dialog_results>>

\* src/main.py:46-50, 52-55: result_ready, or the one error line
run_on_response(w) ==
    /\ workers[w].pc = "returned"
    /\ LET outcome == RunOutcome(workers[w].response)
           sig == Signal(w, outcome.emit, outcome.text)
       IN  /\ ui_queue' = Post(ui_queue, sig)
           /\ workers' = [workers EXCEPT
                            ![w].pc = IF outcome.emit = "result_ready"
                                      THEN "emitted" ELSE "return",
                            ![w].emitted = Append(@, sig)]
    /\ UNCHANGED <<btn_gen_flow, log_area, ocr_text, view_flow, view_graph, dialog_results>>

\* src/main.py:51
run_emit_done(w) ==
    /\ workers[w].pc = "emitted"
    /\ ui_queue' = Post(ui_queue, Signal(w, "log_updated", MsgDone))
    /\ workers' = [workers EXCEPT
                     ![w].pc = "return",
                     ![w].emitted = Append(@, Signal(w, "log_updated", MsgDone))]
    /\ UNCHANGED <<btn_gen_flow, log_area, ocr_text, view_flow, view_graph, dialog_results>>

\* run returns: QThread emits finished
run_returns(w) ==
    /\ workers[w].pc = "return"
    /\ ui_queue' = Post(ui_queue, Signal(w, "finished", ""))
    /\ workers' = [workers EXCEPT
                     ![w].pc = "finished",
                     ![w].emitted = Append(@, Signal(w, "finished", ""))]
    /\ UNCHANGED <<btn_gen_flow, log_area, ocr_text, view_flow, view_graph, dialog_results>>

\* update_log that appends nothing
update_log_drops ==
    /\ ui_queue # <<>>
    /\ Head(ui_queue).signal = "log_updated"
    /\ ui_queue' = Tail(ui_queue)
    /\ UNCHANGED <<btn_gen_flow, log_area, ocr_text, view_flow, view_graph, workers,
                   dialog_results>>

\* src/main.py:164-165, for the log_updated at the head of the queue
update_log ==
    /\ ui_queue # <<>>
    /\ Head(ui_queue).signal = "log_updated"
    /\ log_area' = Append(log_area, Head(ui_queue).text)
    /\ ui_queue' = Tail(ui_queue)
    /\ UNCHANGED <<btn_gen_flow, ocr_text, view_flow, view_graph, workers, dialog_results>>

\* update_flow_chart that builds the script and never runs it
update_flow_chart_no_script ==
    /\ ui_queue # <<>>
    /\ Head(ui_queue).signal = "result_ready"
    /\ log_area' = Append(log_area, MsgFeedback)
    /\ ui_queue' = Tail(ui_queue)
    /\ UNCHANGED <<btn_gen_flow, ocr_text, view_flow, view_graph, workers, dialog_results>>

\* src/main.py:167-176, for the result_ready at the head of the queue
update_flow_chart ==
    /\ ui_queue # <<>>
    /\ Head(ui_queue).signal = "result_ready"
    /\ log_area' = Append(log_area, MsgFeedback)
    /\ view_flow' = Append(view_flow, JsCommand(Head(ui_queue).text))
    /\ ui_queue' = Tail(ui_queue)
    /\ UNCHANGED <<btn_gen_flow, ocr_text, view_graph, workers, dialog_results>>

\* The slot of finished when it does not enable the button
on_finished_keeps_disabled ==
    /\ ui_queue # <<>>
    /\ Head(ui_queue).signal = "finished"
    /\ ui_queue' = Tail(ui_queue)
    /\ UNCHANGED <<btn_gen_flow, log_area, ocr_text, view_flow, view_graph, workers,
                   dialog_results>>

\* src/main.py:161, for the finished at the head of the queue
on_finished ==
    /\ ui_queue # <<>>
    /\ Head(ui_queue).signal = "finished"
    /\ btn_gen_flow' = TRUE
    /\ ui_queue' = Tail(ui_queue)
    /\ UNCHANGED <<log_area, ocr_text, view_flow, view_graph, workers, dialog_results>>

\* The steps of the worker threads that need nothing from outside
WorkerStep ==
    \E w \in DOMAIN workers :
        \/ run_emit_requesting(w)
        \/ run_post(w)
        \/ run_on_response(w)
        \/ run_emit_done(w)
        \/ run_returns(w)

\* The UI thread's event loop delivers the signal at the head of its queue
Deliver == update_log \/ update_flow_chart \/ on_finished

Next ==
    \/ \E fname \in FileNames : load_image(fname)
    \/ start_generation(MaxGen)
    \/ \E w \in DOMAIN workers : \E outcome \in Responses : post_completes(w, outcome)
    \/ WorkerStep
    \/ Deliver

\* The whole program
Spec == Init /\ [][Next]_vars

\* Outcomes of the POST in the specification of what happens in the end
FewResponses ==
    { HttpResponse(StatusOK, JsonObject("response" :> JsonString(<<"A">>))),
      HttpResponse(StatusOK, NotJson),
      HttpResponse(StatusOK, JsonArray),
      HttpResponse(404, NotJson),
      Raised("ConnectionError") }

LiveNext ==
    \/ start_generation(MaxGen)
    \/ \E w \in DOMAIN workers : \E outcome \in FewResponses : post_completes(w, outcome)
    \/ WorkerStep
    \/ Deliver

\* The generations alone, with threads that keep running and an event loop
\* that keeps delivering; nothing makes requests.post come back (it has no
\* timeout)
LiveSpec == Init /\ [][LiveNext]_vars /\ WF_vars(WorkerStep) /\ WF_vars(Deliver)

TextNext ==
    \/ start_generation(1)
    \/ \E w \in DOMAIN workers : \E outcome \in TextResponses : post_completes(w, outcome)
    \/ WorkerStep
    \/ Deliver

\* One generation, with every text of Texts as the model's response
TextSpec == Init /\ [][TextNext]_vars

---------------------------------------------------------------------------
(* What the claims speak of *)

\* The lines load_image appends
LoadedLines == { MsgLoadedPrefix \o fname : fname \in FileNames \ {""} }

\* The generation a line of the log belongs to: the number of
\* start_generation lines up to and including it
GenerationOf(i) == Cardinality({ j \in 1..i : log_area[j] = MsgStart })

\* The lines of the log from the w-th start_generation line up to the next
\* one, those of load_image left out
IsLineOf(w, i) == GenerationOf(i) = w /\ log_area[i] \notin LoadedLines

\* The same lines, read off the log from line i on, which follows gen
\* start_generation lines
RECURSIVE LinesFrom(_, _, _)
LinesFrom(w, i, gen) ==
    IF i > Len(log_area) THEN <<>>
    ELSE LET g == IF log_area[i] = MsgStart THEN gen + 1 ELSE gen
         IN  IF g > w THEN <<>>
             ELSE (IF g = w /\ log_area[i] \notin LoadedLines
                   THEN <<log_area[i]>> ELSE <<>>) \o LinesFrom(w, i + 1, g)

GenerationLog(w) == LinesFrom(w, 1, 0)

\* The workers there can be in one run of the model
WorkerIds == 1..MaxGen

Started(w) == w \in DOMAIN workers

\* The POST of worker w has come back with a status other than 200, or raised
PostFailed(w) ==
    /\ Started(w)
    /\ \/ workers[w].response.kind = "raised"
       \/ /\ workers[w].response.kind = "response"
          /\ workers[w].response.status_code # 200

\* The error line the log is to show for the failed POST of worker w
FailureLine(w) ==
    IF workers[w].response.kind = "raised"
    THEN MsgConnFailPrefix \o workers[w].response.exc
    ELSE MsgApiErrorPrefix \o IntStr(workers[w].response.status_code)

InLog(line, w) == \E i \in DOMAIN log_area : IsLineOf(w, i) /\ log_area[i] = line

\* C1: whenever the POST of a worker has returned a status other than 200 or
\* has raised, the matching error line ('error: API returned <status>' or
\* 'connecting to the local model failed: <exception>') is eventually in the
\* log, among the lines of that generation.
C1_FailureReachesLog ==
    \A w \in WorkerIds : PostFailed(w) ~> (PostFailed(w) /\ InLog(FailureLine(w), w))

\* C1: in the second generation, after a first one that failed with a status,
\* the POST raised and its error line is in the log
C1_Witness ==
    /\ Len(workers) = 2
    /\ workers[1].response.kind = "response" /\ PostFailed(1) /\ InLog(FailureLine(1), 1)
    /\ workers[2].response.kind = "raised" /\ InLog(FailureLine(2), 2)

\* Worker w has got as far as calling requests.post
HasPosted(w) == workers[w].pc \in {"blocked", "returned", "emitted", "return", "finished"}

\* C2: every accepted click (the enabled button becomes disabled) creates
\* exactly one worker, and every worker calls requests.post at most once:
\* exactly once from the call on, never again whatever the outcome.
C2_OneWorkerOnePost ==
    /\ [][(btn_gen_flow /\ ~btn_gen_flow') <=> (Len(workers') = Len(workers) + 1)]_vars
    /\ [][Len(workers') \in {Len(workers), Len(workers) + 1}]_vars
    /\ [](\A w \in DOMAIN workers : workers[w].posts = IF HasPosted(w) THEN 1 ELSE 0)

\* C2: two workers are through, one whose POST failed and one whose POST
\* returned 200, each with one POST
C2_Witness ==
    /\ Len(workers) = 2
    /\ \A w \in {1, 2} : workers[w].pc = "finished" /\ workers[w].posts = 1
    /\ PostFailed(1)
    /\ ~PostFailed(2)

\* C4: at most one worker runs at any time, and while one runs the generate
\* button is disabled.
C4_SingleWorker ==
    /\ Cardinality({ w \in DOMAIN workers : IsRunning(w) }) <= 1
    /\ (\E w \in DOMAIN workers : IsRunning(w)) => ~btn_gen_flow

\* C4: a second worker runs, after the first one finished
C4_Witness ==
    /\ Len(workers) = 2
    /\ ~IsRunning(1)
    /\ IsRunning(2)
    /\ workers[2].pc = "blocked"

\* The last call of load_image, in a step that is one
LoadImageStep == Len(dialog_results') = Len(dialog_results) + 1
LastFile == dialog_results'[Len(dialog_results')]

\* C5: ocr_text always is the non-empty text of the constructor and every
\* worker has it as context_text; a call of load_image changes nothing but
\* the log, which gets 'loaded: <file>' when a file is chosen and nothing
\* when the dialog is cancelled.
C5_OcrTextFixed ==
    /\ [](ocr_text = OcrStub /\ ocr_text # "")
    /\ [](\A w \in DOMAIN workers : workers[w].context_text = OcrStub)
    /\ [][LoadImageStep =>
            /\ UNCHANGED <<btn_gen_flow, ocr_text, view_flow, view_graph, workers, ui_queue>>
            /\ log_area' = IF LastFile = "" THEN log_area
                           ELSE Append(log_area, MsgLoadedPrefix \o LastFile)]_vars

\* C5: a worker was created after load_image had a file chosen
C5_Witness ==
    /\ dialog_results # <<>>
    /\ dialog_results[1] # ""
    /\ \E i \in DOMAIN log_area : log_area[i] \in LoadedLines /\ GenerationOf(i) = 1
    /\ Len(workers) = 2
    /\ workers[2].context_text = OcrStub
    /\ ocr_text = OcrStub

\* The POST of worker w has returned status 200 with a body run can use: a
\* JSON object whose 'response' field is a string or is absent
Usable(w) ==
    /\ Started(w)
    /\ workers[w].response.kind = "response"
    /\ workers[w].response.status_code = 200
    /\ workers[w].response.body.json
    /\ workers[w].response.body.type = "object"
    /\ \/ "response" \notin DOMAIN workers[w].response.body.fields
       \/ workers[w].response.body.fields["response"].type = "string"

\* The POST of worker w is over and did not end as in Usable(w)
Unusable(w) == Started(w) /\ workers[w].response.kind # "none" /\ ~Usable(w)

\* The 'response' field of the body of a usable response, "" when absent
ResponseField(w) ==
    IF "response" \in DOMAIN workers[w].response.body.fields
    THEN workers[w].response.body.fields["response"].chars
    ELSE <<>>

\* Worker w has emitted result_ready
HasEmittedResult(w) ==
    \E i \in DOMAIN workers[w].emitted : workers[w].emitted[i].signal = "result_ready"

\* The text of the first result_ready worker w has emitted
EmittedResult(w) ==
    LET i == CHOOSE j \in DOMAIN workers[w].emitted :
                 /\ workers[w].emitted[j].signal = "result_ready"
                 /\ \A k \in 1..(j - 1) : workers[w].emitted[k].signal # "result_ready"
    IN  workers[w].emitted[i].text

\* Worker w is through and the UI thread has handled all its signals
AllDelivered(w) ==
    /\ Started(w)
    /\ workers[w].pc = "finished"
    /\ \A i \in DOMAIN ui_queue : ui_queue[i].from # w

\* The script of view_flow that belongs to worker w: the n-th one, for the
\* n-th worker with a usable response
ScriptIndex(w) == Cardinality({ v \in 1..w : Usable(v) })

FlowShows(w) ==
    /\ ScriptIndex(w) <= Len(view_flow)
    /\ HasEmittedResult(w)
    /\ view_flow[ScriptIndex(w)] = JsCommand(EmittedResult(w))

\* C3, as claimed: after a generation whose POST returned status 200 with a
\* response of the model in its body, both the flowchart view and the
\* knowledge-graph view have been updated from the response.
C3_BothViewsUpdated ==
    \A w \in DOMAIN workers :
        (Usable(w) /\ AllDelivered(w))
        => (FlowShows(w) /\ view_graph # GraphPlaceholderHtml)

\* C3, amended: after a generation whose POST returned status 200 with a
\* response of the model in its body, view_flow has been given the
\* updateGraph script built from the text emitted on result_ready;
\* view_graph is never updated, it keeps the placeholder page of the
\* constructor.
C3_OnlyFlowUpdated ==
    /\ view_graph = GraphPlaceholderHtml
    /\ \A w \in DOMAIN workers : (Usable(w) /\ AllDelivered(w)) => FlowShows(w)

\* C3: two generations with usable responses are over and view_flow has had
\* its two scripts
C3_Witness ==
    /\ Len(workers) = 2
    /\ \A w \in {1, 2} : Usable(w) /\ AllDelivered(w)
    /\ Len(view_flow) = 2
    /\ view_flow[1] # view_flow[2]

\* a is the beginning of b
IsPrefix(a, b) == Len(a) <= Len(b) /\ SubSeq(b, 1, Len(a)) = a

\* What kind of signal sig is
KindOf(sig) ==
    IF sig.signal # "log_updated" THEN sig.signal
    ELSE IF sig.text = MsgRequesting THEN "requesting"
    ELSE IF sig.text = MsgDone THEN "done"
    ELSE "error"

\* The kinds of the signals worker w has emitted, in order
Shape(w) == [i \in DOMAIN workers[w].emitted |-> KindOf(workers[w].emitted[i])]

ShapeOfSuccess == <<"requesting", "result_ready", "done", "finished">>
ShapeOfFailure == <<"requesting", "error", "finished">>

\* C6: every run emits, after the 'requesting' line, either result_ready
\* once and then the 'done' line, or one error line and no result_ready;
\* a run whose POST did not end with a usable status-200 response never
\* emits result_ready, and update_flow_chart has run at most once per
\* usable response.
C6_OneOutcome ==
    /\ \A w \in DOMAIN workers :
          /\ IsPrefix(Shape(w), ShapeOfSuccess) \/ IsPrefix(Shape(w), ShapeOfFailure)
          /\ workers[w].pc = "finished" => Shape(w) \in {ShapeOfSuccess, ShapeOfFailure}
          /\ Unusable(w) => ~HasEmittedResult(w)
          /\ (Unusable(w) /\ workers[w].pc = "finished") => Shape(w) = ShapeOfFailure
    /\ Len(view_flow) <= Cardinality({ w \in DOMAIN workers : Usable(w) })

\* C6: a run whose status-200 body had a 'response' that is no string and a
\* run whose body was no JSON are over, and view_flow has had no script
C6_Witness ==
    /\ Len(workers) = 2
    /\ \A w \in {1, 2} : AllDelivered(w) /\ Unusable(w)
    /\ \A w \in {1, 2} : workers[w].response.kind = "response"
    /\ \A w \in {1, 2} : workers[w].response.status_code = 200
    /\ workers[1].response.body.json
    /\ ~workers[2].response.body.json
    /\ view_flow = <<>>

\* C7: once the POST of a worker has come back, the worker finishes and the
\* generate button is enabled again.
C7_ButtonReenabled ==
    \A w \in WorkerIds :
        (Started(w) /\ workers[w].pc = "returned")
        ~> (Started(w) /\ workers[w].pc = "finished" /\ btn_gen_flow)

\* C7: the button is enabled again after a generation whose POST raised and
\* one whose POST returned 200
C7_Witness ==
    /\ Len(workers) = 2
    /\ \A w \in {1, 2} : AllDelivered(w)
    /\ workers[1].response.kind = "raised"
    /\ Usable(2)
    /\ btn_gen_flow

\* The places of s where pat occurs
Occurrences(s, pat) == { i \in 1..Len(s) : StartsWithAt(s, i, pat) }

\* s with every occurrence of pat taken out: the first one, then every one
\* of what follows it
RECURSIVE WithoutAll(_, _)
WithoutAll(s, pat) ==
    IF Occurrences(s, pat) = {} THEN s
    ELSE LET first == CHOOSE i \in Occurrences(s, pat) :
                          \A j \in Occurrences(s, pat) : i <= j
         IN  SubSeq(s, 1, first - 1)
                 \o WithoutAll(SubSeq(s, first + Len(pat), Len(s)), pat)

\* s from its first to its last character that is no whitespace
Trimmed(s) ==
    LET inked == { i \in 1..Len(s) : ~IsSpace(s[i]) }
    IN  IF inked = {} THEN <<>>
        ELSE SubSeq(s, CHOOSE i \in inked : \A j \in inked : i <= j,
                       CHOOSE i \in inked : \A j \in inked : i >= j)

\* C8: the text emitted on result_ready is the 'response' field with every
\* "```mermaid" taken out, then every "```" taken out, then the whitespace at
\* both ends stripped; it holds no "```" and neither starts nor ends with
\* whitespace.
C8_CleanedText ==
    \A w \in DOMAIN workers :
        (Usable(w) /\ HasEmittedResult(w)) =>
            LET emitted == EmittedResult(w)
            IN  /\ emitted = Trimmed(WithoutAll(WithoutAll(ResponseField(w), FenceMermaid), Fence))
                /\ ~Contains(emitted, Fence)
                /\ emitted # <<>> => ~IsSpace(emitted[1]) /\ ~IsSpace(emitted[Len(emitted)])

\* C8: a response in which taking out "```mermaid" puts three backquotes side
\* by side has been cleaned, to the empty text
C8_Witness ==
    /\ Started(1)
    /\ Usable(1)
    /\ HasEmittedResult(1)
    /\ ResponseField(1) = <<BQ>> \o FenceMermaid \o <<BQ, BQ>>
    /\ EmittedResult(1) = <<>>
    /\ view_flow # <<>>

\* C9: every script given to view_flow is one call updateGraph("...") whose
\* string literal, read by the rules of JavaScript, is the mermaid_code that
\* update_flow_chart received.
C9_ScriptRoundTrips ==
    \A w \in DOMAIN workers :
        (Usable(w) /\ HasEmittedResult(w) /\ ScriptIndex(w) <= Len(view_flow)) =>
            /\ JsRun(view_flow[ScriptIndex(w)]).ok
            /\ JsRun(view_flow[ScriptIndex(w)]).graphDef = EmittedResult(w)

\* The line of the log, or the enabling of the button, that shows the UI
\* thread has handled sig
EnabledMark == "<button enabled>"
ShownAs(sig) ==
    IF sig.signal = "result_ready" THEN MsgFeedback
    ELSE IF sig.signal = "finished" THEN EnabledMark
    ELSE sig.text

\* The signals worker w has emitted, as the UI thread shows them
EmittedShown(w) == [i \in DOMAIN workers[w].emitted |-> ShownAs(workers[w].emitted[i])]

\* The signals of worker w still in the queue, as the UI thread will show them
RECURSIVE QueuedFrom(_, _)
QueuedFrom(w, i) ==
    IF i > Len(ui_queue) THEN <<>>
    ELSE (IF ui_queue[i].from = w THEN <<ShownAs(ui_queue[i])>> ELSE <<>>)
             \o QueuedFrom(w, i + 1)

\* What the UI thread has shown of generation w after its 'start' line
Shown(w) ==
    Tail(GenerationLog(w))
        \o (IF workers[w].pc = "finished"
               /\ \A i \in DOMAIN ui_queue :
                     ~(ui_queue[i].from = w /\ ui_queue[i].signal = "finished")
            THEN <<EnabledMark>> ELSE <<>>)

NumFeedbackLines == Cardinality({ i \in DOMAIN log_area : log_area[i] = MsgFeedback })

\* C10: the UI thread handles the signals of a worker in the order they were
\* emitted; in a generation with a usable response the log gets 'start',
\* 'requesting', 'feedback' (with the updateGraph script given to view_flow
\* in the same step), 'done', in this order, and the button is enabled only
\* after all of them.
C10_EventOrder ==
    /\ NumFeedbackLines = Len(view_flow)
    /\ \A w \in DOMAIN workers :
          LET glog == GenerationLog(w)
              shown == Shown(w)
          IN  /\ glog # <<>> /\ Head(glog) = MsgStart
              /\ shown \o QueuedFrom(w, 1) = EmittedShown(w)
              /\ Usable(w) =>
                    IsPrefix(shown, <<MsgRequesting, MsgFeedback, MsgDone, EnabledMark>>)
              /\ (Usable(w) /\ w = Len(workers) /\ btn_gen_flow) =>
                    /\ glog = <<MsgStart, MsgRequesting, MsgFeedback, MsgDone>>
                    /\ FlowShows(w)
              /\ (w = Len(workers) /\ btn_gen_flow) => AllDelivered(w)

\* C10: the button is enabled again after a second generation with a usable
\* response, with a line of load_image in the log
C10_Witness ==
    /\ Len(workers) = 2
    /\ Usable(2)
    /\ btn_gen_flow
    /\ GenerationLog(2) = <<MsgStart, MsgRequesting, MsgFeedback, MsgDone>>
    /\ \E i \in DOMAIN log_area : log_area[i] \in LoadedLines /\ GenerationOf(i) = 2

===========================================================================
